---- MODULE Spec2Model ----
(***************************************************************************)
(* Model of src/cpp_example_102e19.cpp: the text-mode Mandelbrot explorer. *)
(*                                                                         *)
(* double is modelled as a reduced-width binary format with the IEEE-754   *)
(* special values: a value is finite (sign and magnitude, the magnitude an *)
(* integer count of 2^-FracBits, at most 2^MagBits of them), an infinity   *)
(* or a NaN.  Every operation rounds to nearest, ties to even, overflows   *)
(* to an infinity and follows the IEEE rules for signed zeros, infinities  *)
(* and NaNs.  The pixel grid keeps the program's 4:3 shape and its even    *)
(* sides: WIDTH = 8 * GridUnit, HEIGHT = 6 * GridUnit (GridUnit is 100 in  *)
(* the program).                                                           *)
(***************************************************************************)
EXTENDS Integers, Sequences, FiniteSets, TLC

\* ---------------------------------------------------------------- bounds
FracBits == 8       \* fraction bits of the modelled double
MagBits == 13       \* a finite magnitude is at most 2^MagBits units
GridUnit == 1       \* the grid is (8 * GridUnit) x (6 * GridUnit) pixels
MaxCalls == 3       \* renders a caller other than main performs
CRange == 10        \* mandelbrot is tried on (a/4, b/4) for |a|, |b| <= CRange
ColorPad == 3       \* getColor is also tried this far outside [0, MAX_ITERATIONS]

\* ------------------------------------------------------- program constants
WIDTH == 8 * GridUnit
HEIGHT == 6 * GridUnit
MAX_ITERATIONS == 100

\* ------------------------------------------------------------ double
SCALE == 2 ^ FracBits
MaxMag == 2 ^ MagBits

Fin(s, m) == [k |-> "fin", s |-> s, m |-> m]
Inf(s) == [k |-> "inf", s |-> s, m |-> 0]
NaN == [k |-> "nan", s |-> 1, m |-> 0]

IsNaN(a) == a.k = "nan"
IsInf(a) == a.k = "inf"
IsFin(a) == a.k = "fin"
IsZero(a) == a.k = "fin" /\ a.m = 0

\* n / d rounded to nearest, ties to even (n >= 0, d > 0)
RoundDiv(n, d) ==
    LET q == n \div d
        r == n % d
    IN  IF 2 * r > d \/ (2 * r = d /\ q % 2 = 1) THEN q + 1 ELSE q

\* a finite result of magnitude m, or the infinity it overflows to
Pack(s, m) == IF m > MaxMag THEN Inf(s) ELSE Fin(s, m)

\* (double)n for an int n
FromInt(n) == Pack(IF n < 0 THEN -1 ELSE 1, (IF n < 0 THEN -n ELSE n) * SCALE)

\* the literal p/q, rounded as the compiler rounds a decimal literal
Lit(s, p, q) == Pack(s, RoundDiv(p * SCALE, q))

Zero == Fin(1, 0)
Two == FromInt(2)
Four == FromInt(4)

DNeg(a) == IF IsNaN(a) THEN NaN ELSE [a EXCEPT !.s = -a.s]

DAdd(a, b) ==
    IF a.k = "fin" /\ b.k = "fin"
    THEN LET v == a.s * a.m + b.s * b.m
         IN  IF v = 0 THEN Fin(IF a.s = -1 /\ b.s = -1 THEN -1 ELSE 1, 0)
             ELSE IF v < 0 THEN Pack(-1, -v)
             ELSE Pack(1, v)
    ELSE IF IsNaN(a) \/ IsNaN(b) THEN NaN
    ELSE IF IsInf(a) /\ IsInf(b) THEN (IF a.s = b.s THEN a ELSE NaN)
    ELSE IF IsInf(a) THEN a
    ELSE b

DSub(a, b) == DAdd(a, DNeg(b))

DMul(a, b) ==
    IF a.k = "fin" /\ b.k = "fin"
    THEN Pack(a.s * b.s, RoundDiv(a.m * b.m, SCALE))
    ELSE IF IsNaN(a) \/ IsNaN(b) THEN NaN
    ELSE IF IsZero(a) \/ IsZero(b) THEN NaN
    ELSE Inf(a.s * b.s)

DDiv(a, b) ==
    IF a.k = "fin" /\ b.k = "fin"
    THEN IF b.m = 0 THEN (IF a.m = 0 THEN NaN ELSE Inf(a.s * b.s))
         ELSE Pack(a.s * b.s, RoundDiv(a.m * SCALE, b.m))
    ELSE IF IsNaN(a) \/ IsNaN(b) THEN NaN
    ELSE IF IsInf(a) /\ IsInf(b) THEN NaN
    ELSE IF IsInf(a) THEN Inf(a.s * b.s)
    ELSE Fin(a.s * b.s, 0)

\* a > b; false when either is a NaN
DGt(a, b) ==
    IF a.k = "fin" /\ b.k = "fin" THEN a.s * a.m > b.s * b.m
    ELSE IF IsNaN(a) \/ IsNaN(b) THEN FALSE
    ELSE IF IsInf(a) THEN a.s = 1 /\ ~(IsInf(b) /\ b.s = 1)
    ELSE b.s = -1

\* floor of the square root of n >= 1, by Newton's iteration down from a
\* guess r >= sqrt(n)
RECURSIVE SqrtDown(_, _)
SqrtDown(n, r) ==
    LET t == (r + n \div r) \div 2
    IN  IF t >= r THEN r ELSE SqrtDown(n, t)

\* the square root of p^2 + q^2 rounded to nearest (p, q >= 0)
RoundHypot(p, q) ==
    IF p = 0 THEN q
    ELSE IF q = 0 THEN p
    ELSE LET n == p * p + q * q
             r == SqrtDown(n, p + q)
         IN  IF n > r * r + r THEN r + 1 ELSE r

\* hypot as max(|a|, |b|) scaled by a square root computes it: a NaN
\* argument gives a NaN even beside an infinity
HypotNaNFirst(a, b) ==
    IF IsNaN(a) \/ IsNaN(b) THEN NaN
    ELSE IF IsInf(a) \/ IsInf(b) THEN Inf(1)
    ELSE Pack(1, RoundHypot(a.m, b.m))

\* hypot(a, b): an infinite argument gives +infinity even beside a NaN
Hypot(a, b) ==
    IF a.k = "fin" /\ b.k = "fin" THEN Pack(1, RoundHypot(a.m, b.m))
    ELSE IF IsInf(a) \/ IsInf(b) THEN Inf(1)
    ELSE NaN

\* --------------------------------------------------- std::complex<double>
Cx(re, im) == [re |-> re, im |-> im]

CAdd(z, w) == Cx(DAdd(z.re, w.re), DAdd(z.im, w.im))

CMul(z, w) ==
    Cx(DSub(DMul(z.re, w.re), DMul(z.im, w.im)),
       DAdd(DMul(z.re, w.im), DMul(z.im, w.re)))

CAbs(z) == Hypot(z.re, z.im)

\* ------------------------------------------------------------- state
VARIABLES
    mode,        \* what drives the run: "main", "harness" (renders with any view
                 \* parameters), "mandelbrot" or "getColor" (one call of the function)
    pcMain,      \* main: index of the next statement of Script
    exitCode,    \* main: the value returned, -1 while running
    rpc,         \* renderMandelbrot: "idle" or "loop"
    zoom, offsetX, offsetY,   \* renderMandelbrot's parameters
    x, y,        \* renderMandelbrot's loop counters
    c,           \* the coordinate last mapped (mandelbrot's argument)
    z,           \* mandelbrot's local z
    iterations,  \* the caller's variable bound to mandelbrot's output parameter
    color,       \* the value last returned by getColor
    out,         \* standard output, a sequence of tokens
    frameStart,  \* Len(out) when the render in progress (or last finished) began
    evals,       \* calls of mandelbrot made by that render
    ncalls,      \* calls of renderMandelbrot so far
    rendered,    \* one record per finished render: its parameters and its frame
    epc,         \* the single call: "loop", "color" or "done"
    i,           \* mandelbrot's loop counter
    ret,         \* the value the single call returned
    arg,         \* getColor's argument
    hist         \* per update performed so far: whether its |z| exceeded 2.0

vars == << mode, pcMain, exitCode, rpc, zoom, offsetX, offsetY, x, y, c, z,
           iterations, color, out, frameStart, evals, ncalls, rendered,
           epc, i, ret, arg, hist >>

renderVars == << rpc, zoom, offsetX, offsetY, x, y, c, z, iterations, color,
                 out, frameStart, evals, ncalls, rendered >>
mainVars == << pcMain, exitCode >>
callVars == << epc, i, ret, arg, hist >>

\* ------------------------------------------------------------ mandelbrot
\* z declared static: initialised once, then left as the last call left it
ZStartStatic == z

\* std::complex<double> z(0.0, 0.0)
ZStart == Cx(Zero, Zero)

\* i < MAX_ITERATIONS
LoopCond(n) == n < MAX_ITERATIONS

\* z = z * z + c
ZUpdate(zz, cc) == CAdd(CMul(zz, zz), cc)

\* std::abs(z) >= 2.0
DivergedGe(zz) == ~IsNaN(CAbs(zz)) /\ ~DGt(Two, CAbs(zz))

\* std::abs(z) > 4.0, the bound on |z|^2
DivergedSq(zz) == DGt(CAbs(zz), Four)

\* std::abs(z) > 2.0
Diverged(zz) == DGt(CAbs(zz), Two)

\* iterations = i + 1; return i + 1, a count of updates rather than an index
DivergeResultOneBased(n) == [ret |-> n + 1, iterations |-> n + 1]

\* iterations = i; return i
DivergeResult(n) == [ret |-> n, iterations |-> n]

\* iterations = MAX_ITERATIONS; return MAX_ITERATIONS
CapResult == [ret |-> MAX_ITERATIONS, iterations |-> MAX_ITERATIONS]

\* mandelbrot's frame on entry: the loop is about to test i = 0; its is the
\* value the caller's variable holds
MandelEnter(its) ==
    [pc |-> "loop", z |-> ZStart, i |-> 0, ret |-> 0, iterations |-> its,
     updates |-> 0]

\* one pass of the for loop: the test of i, and either the body (an update
\* of z, then the return or ++i) or the statements after the loop
LoopStep(st, cc) ==
    IF st.pc # "loop" THEN st
    ELSE IF LoopCond(st.i)
    THEN LET zn == ZUpdate(st.z, cc)
         IN  IF Diverged(zn)
             THEN [pc |-> "done", z |-> zn, i |-> st.i,
                   ret |-> DivergeResult(st.i).ret,
                   iterations |-> DivergeResult(st.i).iterations,
                   updates |-> st.updates + 1]
             ELSE [st EXCEPT !.z = zn, !.i = st.i + 1,
                             !.updates = st.updates + 1]
    ELSE [st EXCEPT !.pc = "done", !.ret = CapResult.ret,
                    !.iterations = CapResult.iterations]

\* n passes of the loop from st (a pass after the return changes nothing),
\* halving n to keep the evaluation shallow
RECURSIVE LoopRun(_, _, _)
LoopRun(st, cc, n) ==
    IF st.pc # "loop" \/ n = 0 THEN st
    ELSE IF n = 1 THEN LoopStep(st, cc)
    ELSE LoopRun(LoopRun(st, cc, n \div 2), cc, n - n \div 2)

\* the call to its return: the loop runs until it returns, which takes at
\* most MAX_ITERATIONS + 1 passes
mandelbrot(cc, its) == LoopRun(MandelEnter(its), cc, MAX_ITERATIONS + 2)

\* -------------------------------------------------------- pixelToComplex
\* x divided by HEIGHT and y by WIDTH
pixelToComplexSwapped(px, py, zm, ox, oy) ==
    LET real == DSub(DMul(DDiv(FromInt(px), FromInt(HEIGHT)), Four), Two)
        imag == DSub(DMul(DDiv(FromInt(py), FromInt(WIDTH)), Four), Two)
    IN  Cx(DAdd(DDiv(real, zm), ox), DAdd(DDiv(imag, zm), oy))

pixelToComplex(px, py, zm, ox, oy) ==
    LET real == DSub(DMul(DDiv(FromInt(px), FromInt(WIDTH)), Four), Two)
        imag == DSub(DMul(DDiv(FromInt(py), FromInt(HEIGHT)), Four), Two)
    IN  Cx(DAdd(DDiv(real, zm), ox), DAdd(DDiv(imag, zm), oy))

\* -------------------------------------------------------------- getColor
\* a % b of C++: the quotient truncates toward zero (b > 0)
CRem(a, b) == IF a >= 0 THEN a % b ELSE -((-a) % b)

\* a / b of C++ on ints (b > 0)
CQuot(a, b) == IF a >= 0 THEN a \div b ELSE -((-a) \div b)

\* hue = iterations * 10, without the % 256
getColorNoWrap(n) ==
    IF n = MAX_ITERATIONS
    THEN [r |-> 0, g |-> 0, b |-> 0]
    ELSE LET hue == n * 10
         IN  [r |-> hue, g |-> CQuot(hue, 2), b |-> CQuot(hue, 4)]

getColor(n) ==
    IF n = MAX_ITERATIONS
    THEN [r |-> 0, g |-> 0, b |-> 0]
    ELSE LET hue == CRem(n * 10, 256)
         IN  [r |-> hue, g |-> CQuot(hue, 2), b |-> CQuot(hue, 4)]

\* ------------------------------------------------------ renderMandelbrot
NL == "\n"

\* y < HEIGHT
RowCond(yy) == yy < HEIGHT

\* x <= WIDTH
ColCondInclusive(xx) == xx <= WIDTH

\* x < WIDTH
ColCond(xx) == xx < WIDTH

\* the character chosen by the colour: a space for black
GlyphByColor(its, col) == IF col = [r |-> 0, g |-> 0, b |-> 0] THEN " " ELSE "*"

\* the character written for a pixel
Glyph(its, col) == IF its = MAX_ITERATIONS THEN " " ELSE "*"

\* the part of out written since the render began
Frame == SubSeq(out, frameStart + 1, Len(out))

CallRender(zm, ox, oy) ==
    /\ rpc = "idle"
    /\ rpc' = "loop"
    /\ zoom' = zm /\ offsetX' = ox /\ offsetY' = oy
    /\ x' = 0 /\ y' = 0
    /\ frameStart' = Len(out)
    /\ evals' = 0
    /\ ncalls' = ncalls + 1
    /\ UNCHANGED << c, z, iterations, color, out, rendered >>

\* one pass of the inner loop's body
RenderPixel ==
    /\ rpc = "loop" /\ RowCond(y) /\ ColCond(x)
    /\ LET cc == pixelToComplex(x, y, zoom, offsetX, offsetY)
           m == mandelbrot(cc, 0)
           col == getColor(m.iterations)
       IN  /\ c' = cc
           /\ z' = m.z
           /\ iterations' = m.iterations
           /\ color' = col
           /\ out' = Append(out, Glyph(m.iterations, col))
    /\ evals' = evals + 1
    /\ x' = x + 1
    /\ UNCHANGED << mode, mainVars, callVars, rpc, zoom, offsetX, offsetY, y,
                    frameStart, ncalls, rendered >>

\* the end of a row: std::cout << std::endl
RenderEndl ==
    /\ rpc = "loop" /\ RowCond(y) /\ ~ColCond(x)
    /\ out' = Append(out, NL)
    /\ y' = y + 1
    /\ x' = 0
    /\ UNCHANGED << mode, mainVars, callVars, rpc, zoom, offsetX, offsetY, c, z,
                    iterations, color, frameStart, evals, ncalls, rendered >>

\* the outer loop ends and the call returns to its caller
RenderReturn ==
    /\ rpc = "loop" /\ ~RowCond(y)
    /\ rpc' = "idle"
    /\ rendered' = Append(rendered, [zoom |-> zoom, offsetX |-> offsetX,
                                     offsetY |-> offsetY, frame |-> Frame])
    /\ pcMain' = IF mode = "main" THEN pcMain + 1 ELSE pcMain
    /\ UNCHANGED << mode, exitCode, callVars, zoom, offsetX, offsetY, x, y, c, z,
                    iterations, color, out, frameStart, evals, ncalls >>

\* ------------------------------------------------------------------ main
\* main without the "\n" that opens the second label
ScriptNoSeparator ==
    << [op |-> "print",
        toks |-> << "Welcome to the Mandelbrot Fractal Explorer Tutorial!", NL >>],
       [op |-> "print",
        toks |-> << "This program will generate a textual representation of the Mandelbrot set.", NL >>],
       [op |-> "print",
        toks |-> << "Pay attention to the comments explaining complex numbers and the iteration process.", NL, NL >>],
       [op |-> "print", toks |-> << "Rendering default view...", NL >>],
       [op |-> "render", zoom |-> FromInt(1), offsetX |-> Zero, offsetY |-> Zero],
       [op |-> "print", toks |-> << "Rendering a zoomed-in view...", NL >>],
       [op |-> "render", zoom |-> FromInt(30), offsetX |-> Lit(-1, 3, 4),
        offsetY |-> Zero],
       [op |-> "print", toks |-> << NL, "Tutorial finished. Happy exploring!", NL >>],
       [op |-> "return", code |-> 0] >>

Script ==
    << [op |-> "print",
        toks |-> << "Welcome to the Mandelbrot Fractal Explorer Tutorial!", NL >>],
       [op |-> "print",
        toks |-> << "This program will generate a textual representation of the Mandelbrot set.", NL >>],
       [op |-> "print",
        toks |-> << "Pay attention to the comments explaining complex numbers and the iteration process.", NL, NL >>],
       [op |-> "print", toks |-> << "Rendering default view...", NL >>],
       [op |-> "render", zoom |-> FromInt(1), offsetX |-> Zero, offsetY |-> Zero],
       [op |-> "print", toks |-> << NL, "Rendering a zoomed-in view...", NL >>],
       [op |-> "render", zoom |-> FromInt(30), offsetX |-> Lit(-1, 3, 4),
        offsetY |-> Zero],
       [op |-> "print", toks |-> << NL, "Tutorial finished. Happy exploring!", NL >>],
       [op |-> "return", code |-> 0] >>

Running == mode = "main" /\ rpc = "idle" /\ exitCode = -1 /\ pcMain <= Len(Script)

\* std::cout << "..."
MainPrint ==
    /\ Running /\ Script[pcMain].op = "print"
    /\ out' = out \o Script[pcMain].toks
    /\ pcMain' = pcMain + 1
    /\ UNCHANGED << mode, exitCode, callVars, rpc, zoom, offsetX, offsetY, x, y,
                    c, z, iterations, color, frameStart, evals, ncalls, rendered >>

\* renderMandelbrot(...): control comes back in RenderReturn
MainRender ==
    /\ Running /\ Script[pcMain].op = "render"
    /\ CallRender(Script[pcMain].zoom, Script[pcMain].offsetX, Script[pcMain].offsetY)
    /\ UNCHANGED << mode, mainVars, callVars >>

\* return 0
MainReturn ==
    /\ Running /\ Script[pcMain].op = "return"
    /\ exitCode' = Script[pcMain].code
    /\ pcMain' = pcMain + 1
    /\ UNCHANGED << mode, callVars, renderVars >>

\* ------------------------------------------- a caller with any parameters
\* the views a caller other than main asks for: a zero zoom of either sign
\* and a closer view, off centre
ViewSet ==
    { << Zero, Zero, Zero >>,
      << DNeg(Zero), Lit(-1, 3, 4), Lit(1, 1, 2) >>,
      << FromInt(2), Lit(-1, 1, 2), Lit(1, 1, 4) >> }

HarnessRender ==
    /\ mode = "harness" /\ ncalls < MaxCalls
    /\ \E v \in ViewSet : CallRender(v[1], v[2], v[3])
    /\ UNCHANGED << mode, mainVars, callVars >>

\* ------------------------------------------------- the program, from main
InitRender ==
    /\ rpc = "idle"
    /\ zoom = Zero /\ offsetX = Zero /\ offsetY = Zero
    /\ x = 0 /\ y = 0
    /\ c = Cx(Zero, Zero) /\ z = Cx(Zero, Zero)
    /\ iterations = 0
    /\ color = [r |-> 0, g |-> 0, b |-> 0]
    /\ out = << >>
    /\ frameStart = 0 /\ evals = 0 /\ ncalls = 0
    /\ rendered = << >>

InitCall ==
    /\ epc = "done" /\ i = 0 /\ ret = 0 /\ arg = 0 /\ hist = << >>

Init ==
    /\ mode \in {"main", "harness"}
    /\ pcMain = 1 /\ exitCode = -1
    /\ InitRender
    /\ InitCall

Next ==
    \/ MainPrint
    \/ MainRender
    \/ MainReturn
    \/ HarnessRender
    \/ RenderPixel
    \/ RenderEndl
    \/ RenderReturn

Spec == Init /\ [][Next]_vars

\* --------------------------------------------- one call of one function
Quarter(n) == Lit(IF n < 0 THEN -1 ELSE 1, IF n < 0 THEN -n ELSE n, 4)

SpecialSet == {NaN, Inf(1), Inf(-1), Zero, DNeg(Zero), FromInt(1)}

\* the arguments mandelbrot is called with
CSet ==
    { Cx(Quarter(a), Quarter(b)) : a, b \in -CRange .. CRange }
        \cup { Cx(FromInt(3), Zero) }
        \cup { Cx(a, b) : a, b \in SpecialSet }

\* the frame of the call in progress
CallFrame ==
    [pc |-> epc, z |-> z, i |-> i, ret |-> ret, iterations |-> iterations,
     updates |-> Len(hist)]

SetCallFrame(st) ==
    /\ epc' = st.pc /\ z' = st.z /\ i' = st.i /\ ret' = st.ret
    /\ iterations' = st.iterations

\* a pass of mandelbrot's loop through its body
MandelPass ==
    /\ mode = "mandelbrot" /\ epc = "loop" /\ LoopCond(i)
    /\ SetCallFrame(LoopStep(CallFrame, c))
    /\ hist' = Append(hist, DGt(CAbs(z'), Two))
    /\ UNCHANGED << mode, mainVars, arg, rpc, zoom, offsetX, offsetY, x, y, c,
                    color, out, frameStart, evals, ncalls, rendered >>

\* the loop's test fails: the statements after the loop
MandelCap ==
    /\ mode = "mandelbrot" /\ epc = "loop" /\ ~LoopCond(i)
    /\ SetCallFrame(LoopStep(CallFrame, c))
    /\ UNCHANGED << mode, mainVars, arg, hist, rpc, zoom, offsetX, offsetY, x, y,
                    c, color, out, frameStart, evals, ncalls, rendered >>

\* getColor(arg)
ColorCall ==
    /\ mode = "getColor" /\ epc = "color"
    /\ color' = getColor(arg)
    /\ epc' = "done"
    /\ UNCHANGED << mode, mainVars, i, ret, arg, hist, rpc, zoom, offsetX,
                    offsetY, x, y, c, z, iterations, out, frameStart, evals,
                    ncalls, rendered >>

InitPure ==
    /\ pcMain = 1 /\ exitCode = -1
    /\ rpc = "idle"
    /\ zoom = Zero /\ offsetX = Zero /\ offsetY = Zero
    /\ x = 0 /\ y = 0
    /\ color = [r |-> 0, g |-> 0, b |-> 0]
    /\ out = << >>
    /\ frameStart = 0 /\ evals = 0 /\ ncalls = 0
    /\ rendered = << >>
    /\ i = 0 /\ ret = 0 /\ hist = << >>
    /\ \/ /\ mode = "mandelbrot"
          /\ epc = "loop"
          /\ c \in CSet
          /\ z = ZStart
          /\ iterations \in {0, -7}
          /\ arg = 0
       \/ /\ mode = "getColor"
          /\ epc = "color"
          /\ arg \in -ColorPad .. MAX_ITERATIONS + ColorPad
          /\ c = Cx(Zero, Zero) /\ z = Cx(Zero, Zero)
          /\ iterations = 0

NextPure ==
    \/ MandelPass
    \/ MandelCap
    \/ ColorCall

SpecPure == InitPure /\ [][NextPure]_vars

\* the stepped call and the call made by the renderer agree
CallAgrees ==
    (mode = "mandelbrot" /\ epc = "done")
        => LET m == mandelbrot(c, 0)
           IN  m.ret = ret /\ m.z = z /\ m.updates = Len(hist)
\* ===================================================================
\* The properties checked.
\* ===================================================================
Last(q) == q[Len(q)]

\* a and b are the same number: +0 is -0, a NaN is no number
DEq(a, b) ==
    IF a.k = "fin" /\ b.k = "fin" THEN a.s * a.m = b.s * b.m
    ELSE IF IsNaN(a) \/ IsNaN(b) THEN FALSE
    ELSE a = b

\* the token a frame of the view (zm, ox, oy) holds at position pos: rows
\* top to bottom, in a row the columns left to right and then the line break
ExpToken(pos, zm, ox, oy) ==
    IF pos % (WIDTH + 1) = 0 THEN NL
    ELSE LET px == (pos - 1) % (WIDTH + 1)
             py == (pos - 1) \div (WIDTH + 1)
         IN  IF mandelbrot(pixelToComplex(px, py, zm, ox, oy), 0).ret
                    = MAX_ITERATIONS
             THEN " " ELSE "*"

FrameOf(zm, ox, oy) ==
    [pos \in 1 .. HEIGHT * (WIDTH + 1) |-> ExpToken(pos, zm, ox, oy)]

CallDone == mode = "mandelbrot" /\ epc = "done"

\* C1: mandelbrot returns a value in [0, MAX_ITERATIONS], and it returns
\* MAX_ITERATIONS exactly when no update left |z| above 2.0, in which case all
\* MAX_ITERATIONS updates were made.
C1_RangeAndCap ==
    CallDone =>
        /\ ret \in 0 .. MAX_ITERATIONS
        /\ (ret = MAX_ITERATIONS) <=> (\A k \in 1 .. Len(hist) : ~hist[k])
        /\ (ret = MAX_ITERATIONS) => Len(hist) = MAX_ITERATIONS

C1_Witness ==
    /\ CallDone /\ ret = MAX_ITERATIONS /\ Len(hist) = MAX_ITERATIONS
    /\ IsFin(c.re) /\ IsFin(c.im) /\ ~IsZero(c.re) /\ ~IsZero(c.im)

\* C7: mandelbrot(0 + 0i) never diverges and returns MAX_ITERATIONS;
\* mandelbrot(3 + 0i) diverges at the first update and returns 0.
C7_KnownPoints ==
    CallDone =>
        /\ (DEq(c.re, Zero) /\ DEq(c.im, Zero))
              => (ret = MAX_ITERATIONS /\ \A k \in 1 .. Len(hist) : ~hist[k])
        /\ (DEq(c.re, FromInt(3)) /\ DEq(c.im, Zero))
              => (ret = 0 /\ hist = << TRUE >>)

C7_Witness == CallDone /\ c = Cx(FromInt(3), Zero) /\ ret = 0 /\ hist = << TRUE >>

\* C10: when an update leaves |z| above 2.0, mandelbrot returns the 0-based
\* index of the first such update and has made exactly that many updates
\* plus one; the value stored through the output parameter is the value
\* returned; never more than MAX_ITERATIONS updates are made.
C10_FirstEscape ==
    /\ mode = "mandelbrot" => Len(hist) <= MAX_ITERATIONS
    /\ CallDone =>
          /\ iterations = ret
          /\ (\E k \in 1 .. Len(hist) : hist[k]) =>
                /\ Len(hist) = ret + 1
                /\ hist[Len(hist)]
                /\ \A k \in 1 .. Len(hist) - 1 : ~hist[k]

C10_Witness ==
    /\ CallDone /\ ret >= 2 /\ ret < MAX_ITERATIONS
    /\ Len(hist) = ret + 1 /\ hist[Len(hist)]

\* C5: getColor(MAX_ITERATIONS) is (0, 0, 0); for iterations in
\* [0, MAX_ITERATIONS) it is (r, r / 2, r / 4) with r = (iterations * 10) mod
\* 256, the divisions on integers, and every component is in [0, 255].
C5_ColorRamp ==
    (mode = "getColor" /\ epc = "done") =>
        /\ arg = MAX_ITERATIONS => color = [r |-> 0, g |-> 0, b |-> 0]
        /\ arg \in 0 .. MAX_ITERATIONS - 1 =>
              /\ color.r = (arg * 10) % 256
              /\ color.g = color.r \div 2
              /\ color.b = color.r \div 4
              /\ {color.r, color.g, color.b} \subseteq 0 .. 255

C5_Witness ==
    /\ mode = "getColor" /\ epc = "done"
    /\ arg * 10 > 256 /\ arg < MAX_ITERATIONS /\ color.b > 0

\* C2: a finished render wrote HEIGHT lines, each of WIDTH characters that
\* are ' ' or '*' and then one line break, and called mandelbrot
\* WIDTH * HEIGHT times.
C2_FrameShape ==
    (rpc = "idle" /\ rendered # << >>) =>
        LET f == Last(rendered).frame
        IN  /\ Len(f) = HEIGHT * (WIDTH + 1)
            /\ \A pos \in 1 .. Len(f) :
                  IF pos % (WIDTH + 1) = 0 THEN f[pos] = NL
                  ELSE f[pos] \in {" ", "*"}
            /\ Cardinality({pos \in 1 .. Len(f) : f[pos] = NL}) = HEIGHT
            /\ evals = WIDTH * HEIGHT

C2_Witness ==
    /\ mode = "harness" /\ rpc = "idle" /\ Len(rendered) = 2
    /\ IsZero(rendered[1].zoom) /\ ~IsZero(rendered[2].zoom)
    /\ evals = WIDTH * HEIGHT

\* C3: during a render the characters written so far are the frame's first
\* y * (WIDTH + 1) + x tokens in row-major order, nothing already written
\* changes, and the character of pixel (x, y) is ' ' exactly when
\* mandelbrot(pixelToComplex(x, y, zoom, offsetX, offsetY)) is
\* MAX_ITERATIONS and '*' otherwise, whatever getColor returned.
C3_State ==
    /\ rpc = "loop" =>
          /\ Len(Frame) = y * (WIDTH + 1) + x
          /\ Len(Frame) > 0 =>
                Last(out) = ExpToken(Len(Frame), zoom, offsetX, offsetY)
    /\ (rpc = "idle" /\ rendered # << >>) =>
          LET r == Last(rendered)
          IN  r.frame = FrameOf(r.zoom, r.offsetX, r.offsetY)

C3_Step == Len(out') >= Len(out) /\ SubSeq(out', 1, Len(out)) = out

C3_RowMajorGlyphs == [] C3_State /\ [][C3_Step]_vars

C3_Witness ==
    /\ rpc = "loop" /\ x > 0 /\ y > 0
    /\ iterations = 0 /\ color = [r |-> 0, g |-> 0, b |-> 0]
    /\ Last(out) = "*"

\* C4: two finished renders with identical parameters wrote identical
\* frames, whatever was rendered before or between them.
C4_Idempotent ==
    \A a, b \in 1 .. Len(rendered) :
        ( /\ rendered[a].zoom = rendered[b].zoom
          /\ rendered[a].offsetX = rendered[b].offsetX
          /\ rendered[a].offsetY = rendered[b].offsetY )
            => rendered[a].frame = rendered[b].frame

C4_Witness ==
    /\ Len(rendered) = 3
    /\ rendered[1].zoom = rendered[3].zoom
    /\ rendered[1].offsetX = rendered[3].offsetX
    /\ rendered[1].offsetY = rendered[3].offsetY
    /\ rendered[2].zoom # rendered[1].zoom
    /\ rendered[2].frame # rendered[1].frame

\* C6: main's output is, in this order: the banner lines, a label, the
\* frame of (1.0, 0, 0), a blank line, a label, the frame of
\* (30.0, -0.75, 0), a blank line and the closing text.  At every moment
\* the output is a prefix of that, so the first frame is complete before
\* anything of the second is written; when main has returned the output is
\* all of it, the renderer was called twice and the exit code is 0.
MainHead ==
    << "Welcome to the Mandelbrot Fractal Explorer Tutorial!", NL,
       "This program will generate a textual representation of the Mandelbrot set.", NL,
       "Pay attention to the comments explaining complex numbers and the iteration process.", NL,
       NL,
       "Rendering default view...", NL >>

MainMid == << NL, "Rendering a zoomed-in view...", NL >>

MainTail == << NL, "Tutorial finished. Happy exploring!", NL >>

FrameLen == HEIGHT * (WIDTH + 1)

\* where the two frames begin in main's output (the position before them)
Frame1At == Len(MainHead)
Frame2At == Frame1At + FrameLen + Len(MainMid)
MainLen == Frame2At + FrameLen + Len(MainTail)

\* the token of main's output at position pos
MainToken(pos) ==
    IF pos <= Frame1At THEN MainHead[pos]
    ELSE IF pos <= Frame1At + FrameLen
    THEN ExpToken(pos - Frame1At, FromInt(1), Zero, Zero)
    ELSE IF pos <= Frame2At THEN MainMid[pos - Frame1At - FrameLen]
    ELSE IF pos <= Frame2At + FrameLen
    THEN ExpToken(pos - Frame2At, FromInt(30), Lit(-1, 3, 4), Zero)
    ELSE MainTail[pos - Frame2At - FrameLen]

InFrame(pos, at) == at < pos /\ pos <= at + FrameLen

C6_MainOutput ==
    mode = "main" =>
        /\ Len(out) <= MainLen
        /\ \A pos \in 1 .. Len(out) :
              (~InFrame(pos, Frame1At) /\ ~InFrame(pos, Frame2At))
                  => out[pos] = MainToken(pos)
        /\ (InFrame(Len(out), Frame1At) \/ InFrame(Len(out), Frame2At))
              => Last(out) = MainToken(Len(out))
        /\ Len(out) >= Frame1At + FrameLen =>
              SubSeq(out, Frame1At + 1, Frame1At + FrameLen)
                  = FrameOf(FromInt(1), Zero, Zero)
        /\ Len(out) >= Frame2At + FrameLen =>
              SubSeq(out, Frame2At + 1, Frame2At + FrameLen)
                  = FrameOf(FromInt(30), Lit(-1, 3, 4), Zero)
        /\ Len(out) > Frame2At => ncalls = 2
        /\ ncalls <= 2
        /\ exitCode \in {-1, 0}
        /\ exitCode = 0 => (Len(out) = MainLen /\ ncalls = 2 /\ rpc = "idle")

C6_Witness ==
    /\ mode = "main" /\ exitCode = 0 /\ Len(rendered) = 2
    /\ Len(out) = MainLen
    /\ rendered[1].frame # rendered[2].frame

\* C8: in the render of (1.0, 0, 0) the centre pixel (WIDTH / 2, HEIGHT / 2)
\* is mapped to 0 + 0i and is written as ' ': character WIDTH / 2 of line
\* HEIGHT / 2 of the frame is a space.
FullView(zm, ox, oy) == zm = FromInt(1) /\ DEq(ox, Zero) /\ DEq(oy, Zero)

CentrePos == (HEIGHT \div 2) * (WIDTH + 1) + WIDTH \div 2 + 1

C8_Centre ==
    /\ ( /\ rpc = "loop" /\ FullView(zoom, offsetX, offsetY)
         /\ y = HEIGHT \div 2 /\ x = WIDTH \div 2 + 1 )
          => /\ DEq(c.re, Zero) /\ DEq(c.im, Zero)
             /\ iterations = MAX_ITERATIONS
             /\ Last(out) = " "
    /\ \A k \in 1 .. Len(rendered) :
          FullView(rendered[k].zoom, rendered[k].offsetX, rendered[k].offsetY)
              => rendered[k].frame[CentrePos] = " "

C8_Witness ==
    /\ mode = "main" /\ rpc = "loop" /\ ncalls = 1
    /\ y = HEIGHT \div 2 /\ x = WIDTH \div 2 + 1
    /\ Last(out) = " "

\* C9 as stated: with zoom = 0 every pixel's coordinate is infinite or not a
\* number, and every pixel is reported as a non-member: fewer than
\* MAX_ITERATIONS iterations and the character '*'.
ZeroZoomPixel == rpc = "loop" /\ IsZero(zoom) /\ x > 0

NonFinite(cc) == ~IsFin(cc.re) /\ ~IsFin(cc.im)

C9_AllNonMembers ==
    ZeroZoomPixel =>
        /\ NonFinite(c)
        /\ iterations < MAX_ITERATIONS
        /\ Last(out) = "*"

\* C9, amended: with zoom = 0 (of either sign, finite offsets) both parts of
\* every pixel's coordinate are infinite or not a number.  Away from the
\* centre pixel (WIDTH / 2, HEIGHT / 2) a part is infinite, the first update
\* exceeds the threshold and the pixel is a non-member: 0 iterations, '*'.
\* At the centre pixel both parts are NaN (0 / 0), |z| is a NaN that never
\* compares above 2.0, and the pixel is reported as a member:
\* MAX_ITERATIONS iterations, ' '.
C9_ZeroZoom ==
    ZeroZoomPixel =>
        /\ NonFinite(c)
        /\ IF x - 1 = WIDTH \div 2 /\ y = HEIGHT \div 2
           THEN /\ IsNaN(c.re) /\ IsNaN(c.im)
                /\ iterations = MAX_ITERATIONS
                /\ Last(out) = " "
           ELSE /\ IsInf(c.re) \/ IsInf(c.im)
                /\ iterations = 0
                /\ Last(out) = "*"

C9_Witness ==
    /\ ZeroZoomPixel /\ x - 1 = WIDTH \div 2 /\ y = HEIGHT \div 2
    /\ IsNaN(c.re) /\ IsNaN(c.im) /\ Last(out) = " "
====
